---- MODULE Spec2Model ----
(***************************************************************************)
(* Produkteliste: the job API (api/main.py), the JSON store                *)
(* (storage/jsonbin.py), the spreadsheet wrapper (excel/io.py) and the row *)
(* pipeline (worker/runner.py) as one state machine.                       *)
(*                                                                         *)
(* Text is a sequence of tokens; the token WS is one whitespace character, *)
(* every other token is a run of non-whitespace characters.  An empty cell *)
(* (None in openpyxl) is the empty sequence.                               *)
(***************************************************************************)
EXTENDS Integers, Sequences, FiniteSets, TLC

\* ------------------------------------------------------------------ bounds
\* data rows of the one uploaded sheet (Spec)
MaxRows == 3
\* uploads accepted by create_job when several jobs share the store (SpecStore)
MaxJobs == 2
\* data rows over all uploaded sheets when several jobs share the store
MaxSharedRows == 1
\* store requests that answer with an HTTP error
MaxStoreFailures == 1

\* ------------------------------------------------------- program constants
HEADER_ROW == 3
DATA_START_ROW == 4
SemPermits == 2
ImagesMin == 6
VideosMin == 1

None == "None"
WS == " "

\* --------------------------------------------------------------- excel/io
RECURSIVE Split(_, _)
\* str.split(): the words of s, separated by runs of whitespace
Split(s, cur) ==
    IF s = << >> THEN (IF cur = << >> THEN << >> ELSE <<cur>>)
    ELSE IF Head(s) = WS
         THEN (IF cur = << >> THEN << >> ELSE <<cur>>) \o Split(Tail(s), << >>)
         ELSE Split(Tail(s), Append(cur, Head(s)))

RECURSIVE Join(_)
\* " ".join(words)
Join(words) ==
    IF words = << >> THEN << >>
    ELSE IF Len(words) = 1 THEN words[1]
         ELSE words[1] \o <<WS>> \o Join(Tail(words))

\* faulty variant: the cell value is taken as it is
normalize_header_unchanged(value) == value
normalize_header(value) == Join(Split(value, << >>))

H_ID == <<"ID">>
H_Keyword == <<"Keyword">>
H_Available == <<"Available">>
H_Img == <<"Min.", WS, "6", WS, "Bilder">>
H_Vid == <<"1-", WS, "3", WS, "Videos">>
H_Bul == <<"Produktbeschr">>
H_PriceGx == <<"Preis", WS, "Galaxus">>
H_PriceMp == <<"Preis", WS, "Marktpreis", WS, "Main">>
H_VendorMp == <<"Marktpreis", WS, "Anbieter", WS, "Main">>

\* a worksheet: the header row (row 3) and the data rows (row 4 onwards)
max_column(ws) == Len(ws.header)
max_row(ws) == HEADER_ROW + Len(ws.data)
cell(ws, r, c) == IF r = HEADER_ROW THEN ws.header[c] ELSE ws.data[r - HEADER_ROW][c]

RECURSIVE map_headers_from(_, _, _)
map_headers_from(ws, col, headers) ==
    IF col > max_column(ws) THEN headers
    ELSE LET h == normalize_header(cell(ws, HEADER_ROW, col))
         IN  map_headers_from(ws, col + 1,
                 IF h # << >> THEN (h :> col) @@ headers ELSE headers)

map_headers(ws) == map_headers_from(ws, 1, << >>)

\* dict.get(key): 0 stands for None
hget(headers, name) == IF name \in DOMAIN headers THEN headers[name] ELSE 0

read_inputs_raises(headers) == H_ID \notin DOMAIN headers

RECURSIVE read_inputs_from(_, _, _)
read_inputs_from(ws, headers, r) ==
    IF r > max_row(ws) THEN << >>
    ELSE LET pid == normalize_header(cell(ws, r, headers[H_ID]))
             keyword_col == hget(headers, H_Keyword)
             kw == IF keyword_col # 0
                   THEN normalize_header(cell(ws, r, keyword_col)) ELSE << >>
         IN  (IF pid = << >> THEN << >>
              ELSE <<[row_index |-> r, product_id |-> pid, keyword |-> kw]>>)
             \o read_inputs_from(ws, headers, r + 1)

read_inputs(ws, headers) == read_inputs_from(ws, headers, DATA_START_ROW)

JaNein(b) == IF b THEN <<"ja">> ELSE <<"nein">>

\* faulty variant: the keyword result is written into the Keyword column
write_outputs_cell_with_rank(ws, headers, results_by_row, r, c) ==
    IF r \notin DOMAIN results_by_row THEN cell(ws, r, c)
    ELSE LET res == results_by_row[r] IN
         CASE c = hget(headers, H_Available) -> res.availability_text
           [] c = hget(headers, H_Img) -> JaNein(res.images_ok)
           [] c = hget(headers, H_Vid) -> JaNein(res.videos_ok)
           [] c = hget(headers, H_Bul) -> JaNein(res.bullets_ok)
           [] c = hget(headers, H_PriceGx) -> res.galaxus_price
           [] c = hget(headers, H_PriceMp) -> res.toppreise_price
           [] c = hget(headers, H_VendorMp) -> res.toppreise_vendor
           [] c = hget(headers, H_Keyword) -> JaNein(res.keyword_over_48)
           [] OTHER -> cell(ws, r, c)

\* the value write_outputs leaves in cell (r, c)
write_outputs_cell(ws, headers, results_by_row, r, c) ==
    IF r \notin DOMAIN results_by_row THEN cell(ws, r, c)
    ELSE LET res == results_by_row[r] IN
         CASE c = hget(headers, H_Available) -> res.availability_text
           [] c = hget(headers, H_Img) -> JaNein(res.images_ok)
           [] c = hget(headers, H_Vid) -> JaNein(res.videos_ok)
           [] c = hget(headers, H_Bul) -> JaNein(res.bullets_ok)
           [] c = hget(headers, H_PriceGx) -> res.galaxus_price
           [] c = hget(headers, H_PriceMp) -> res.toppreise_price
           [] c = hget(headers, H_VendorMp) -> res.toppreise_vendor
           [] OTHER -> cell(ws, r, c)

write_outputs(ws, headers, results_by_row) ==
    [ws EXCEPT !.data =
        [i \in 1..Len(ws.data) |->
            [c \in 1..Len(ws.data[i]) |->
                write_outputs_cell(ws, headers, results_by_row, HEADER_ROW + i, c)]]]

\* workbook_to_bytes: the saved sheet, an opaque wrapping (never empty)
workbook_to_bytes(ws) == <<ws>>

\* ------------------------------------------------------------- the inputs
GoodHeader == <<H_ID, H_Keyword, H_Available, H_Img, H_Vid, H_Bul,
                H_PriceGx, H_PriceMp, H_VendorMp>>
\* the same header row without an identifier column
BadHeader == <<<<"Nr">>, H_Keyword, H_Available, H_Img, H_Vid, H_Bul,
               H_PriceGx, H_PriceMp, H_VendorMp>>
Headers == {GoodHeader, BadHeader}

Blank7 == << << >>, << >>, << >>, << >>, << >>, << >>, << >> >>
\* a data row: identifier cell, keyword cell, seven output cells
DataRow(id, kw) == <<id, kw>> \o Blank7
RowKinds == { DataRow(<<WS>>, << >>),
              DataRow(<<"12345">>, << >>),
              DataRow(<<WS, "12345">>, <<"baby", WS, WS, "phone">>) }

RECURSIVE SeqsUpTo(_, _)
SeqsUpTo(S, n) ==
    IF n = 0 THEN { << >> }
    ELSE LET shorter == SeqsUpTo(S, n - 1)
         IN  shorter \cup { Append(q, e) : q \in shorter, e \in S }

Sheets(n) == { [header |-> h, data |-> d] : h \in Headers, d \in SeqsUpTo(RowKinds, n) }

\* ------------------------------------------------------- extractor results
GxResults == { [url |-> "https://www.galaxus.ch/de/product/12345",
                availability_text |-> <<"morgen", WS, "geliefert">>,
                images_count |-> 6, videos_count |-> 1, bullets_ok |-> TRUE,
                price_chf |-> <<"199.00">>] }
NoRank == 0
RkResults == { [rank |-> 3, over_48 |-> FALSE] }
TpResults == { [best_price_chf |-> <<"19.90">>, vendor |-> <<"Fust">>] }
\* what an extractor call raises
ExtractorErrors == { [kind |-> "TimeoutError", msg |-> "Timeout 60000ms exceeded."] }
HTTPError == [kind |-> "HTTPError", msg |-> "503 Server Error"]
ValueErrorMissingID == [kind |-> "ValueError",
                        msg |-> "Missing required column header 'ID' in row 3."]
NoError == [kind |-> "", msg |-> ""]

Jobs == 1..MaxJobs

VARIABLES
    jobsBin,        \* the jobs bin of the store: job id -> JobRecord
    resultsBin,     \* the results bin of the store: job id -> ResultRecord
    failsLeft,      \* store requests that may still fail
    rowsLeft,       \* data rows that may still be uploaded
    uploadsLeft,    \* uploads that may still be accepted
    apiPc,          \* create_job: where the handler stands
    apiJob,         \* create_job: the job id it drew
    apiRec,         \* create_job: the bin record _upsert has read
    xlsx,           \* per job: the uploaded sheet
    tpc,            \* per job: where _run_job_task stands
    tjob,           \* per job: _run_job_task's local job dict
    trec,           \* per job: the bin record _upsert has read
    terr,           \* per job: the exception _run_job_task caught
    tresult,        \* per job: what run_job_excel returned
    inputs,         \* per job: the InputRows read_inputs returned
    rpc,            \* per job, per input: where process_one stands
    res,            \* per job, per input: process_one's local res dict
    results_by_row, \* per job: row index -> RowResult
    sem,            \* per job: the semaphore's free permits
    active,         \* per job: the extractor calls in flight, <<input, name>>
    log,            \* per job, per input: what process_one did, in order
    ext             \* one extractor or parser call looked at on its own

storeVars == <<jobsBin, resultsBin, failsLeft>>
apiVars == <<apiPc, apiJob, apiRec, rowsLeft, uploadsLeft>>
taskVars == <<tpc, tjob, trec, terr, tresult>>
rowVars == <<inputs, rpc, res, results_by_row, sem, active, log>>
pipeVars == <<storeVars, apiVars, xlsx, taskVars, rowVars>>
vars == <<pipeVars, ext>>

EmptyDict == << >>
EmptySheet == [header |-> << >>, data |-> << >>]
\* no extractor call is looked at on its own
NoCall == [pc |-> "none"]
NoResult == [count |-> 0, results_by_row |-> EmptyDict, excel_bytes |-> << >>,
             finished_at |-> None]

\* the state after the module is loaded: empty bins, no request yet
InitProgram ==
    /\ jobsBin = EmptyDict
    /\ resultsBin = EmptyDict
    /\ failsLeft = MaxStoreFailures
    /\ apiPc = "idle"
    /\ apiJob = 0
    /\ apiRec = EmptyDict
    /\ xlsx = [j \in Jobs |-> EmptySheet]
    /\ tpc = [j \in Jobs |-> "none"]
    /\ tjob = [j \in Jobs |-> EmptyDict]
    /\ trec = [j \in Jobs |-> EmptyDict]
    /\ terr = [j \in Jobs |-> NoError]
    /\ tresult = [j \in Jobs |-> NoResult]
    /\ inputs = [j \in Jobs |-> << >>]
    /\ rpc = [j \in Jobs |-> << >>]
    /\ res = [j \in Jobs |-> << >>]
    /\ results_by_row = [j \in Jobs |-> EmptyDict]
    /\ sem = [j \in Jobs |-> SemPermits]
    /\ active = [j \in Jobs |-> {}]
    /\ log = [j \in Jobs |-> << >>]

\* one upload of up to MaxRows data rows
Init == InitProgram /\ ext = NoCall /\ uploadsLeft = 1 /\ rowsLeft = MaxRows

\* up to MaxJobs uploads of up to MaxSharedRows data rows together
InitStore ==
    InitProgram /\ ext = NoCall /\ uploadsLeft = MaxJobs /\ rowsLeft = MaxSharedRows

\* dict[key] = value
dset(d, k, v) == (k :> v) @@ d

\* -------------------------------------------------- runner.py: process_one
res_init(inp) ==
    [availability_text |-> << >>, images_ok |-> FALSE, videos_ok |-> FALSE,
     bullets_ok |-> FALSE, galaxus_price |-> << >>, galaxus_url |-> "",
     toppreise_price |-> << >>, toppreise_vendor |-> << >>,
     keyword |-> inp.keyword, keyword_rank |-> NoRank, keyword_over_48 |-> FALSE,
     checked_at |-> "ts", notes |-> << >>]

after_galaxus(r, gx) ==
    [r EXCEPT !.galaxus_url = gx.url,
              !.availability_text = gx.availability_text,
              !.images_ok = (gx.images_count >= ImagesMin),
              !.videos_ok = (gx.videos_count >= VideosMin),
              !.bullets_ok = gx.bullets_ok,
              !.galaxus_price = gx.price_chf]

\* faulty variant: the keyword check is not guarded by "if inp.keyword"
step_after_galaxus_unguarded(inp) == "kw"
\* the step that follows a returned check_galaxus_product
step_after_galaxus(inp) == IF inp.keyword # << >> THEN "kw" ELSE "tp"

after_keyword(r, rk) ==
    [r EXCEPT !.keyword_rank = rk.rank, !.keyword_over_48 = rk.over_48]

after_toppreise(r, tp) ==
    [r EXCEPT !.toppreise_price = tp.best_price_chf, !.toppreise_vendor = tp.vendor]

\* faulty variant: the handler starts from a fresh res dict
after_exception_fresh(r, e) ==
    [availability_text |-> << >>, images_ok |-> FALSE, videos_ok |-> FALSE,
     bullets_ok |-> FALSE, galaxus_price |-> << >>, galaxus_url |-> "",
     toppreise_price |-> << >>, toppreise_vendor |-> << >>,
     keyword |-> r.keyword, keyword_rank |-> NoRank, keyword_over_48 |-> FALSE,
     checked_at |-> r.checked_at, notes |-> <<"ERROR:", e.kind, e.msg>>]
\* notes = f"ERROR: {type(e).__name__}: {e}"
after_exception(r, e) == [r EXCEPT !.notes = <<"ERROR:", e.kind, e.msg>>]

\* faulty variant: a permit is handed out once too often
can_acquire_off_by_one(permits) == permits >= 0
\* asyncio.Semaphore: acquire returns only while a permit is free
can_acquire(permits) == permits > 0
\* faulty variant: the sleep is outside "async with sem", the slot is released first
permits_after_record_released(permits) == permits + 1
\* the permits after the row's result is recorded (the slot is kept over the sleep)
permits_after_record(permits) == permits
\* faulty variant: the slot is not given back
permits_after_sleep_kept(permits) == permits
\* the permits after the pacing sleep: leaving "async with sem" releases the slot
permits_after_sleep(permits) == permits + 1

\* faulty variant: the row task has no handler, the error leaves the row task
row_catches_nothing(e) == FALSE
\* "except Exception": every error of an extractor call is an Exception
row_catches(e) == TRUE

\* faulty variant: each call has its own handler, the next call follows
step_after_raise_next_call(step) == IF step = "tp" THEN "sleep" ELSE "tp"
\* where the row task stands after "except Exception" caught the error of the
\* call it was in: the handler is the last statement of the try block, the
\* result is recorded and the pacing sleep starts
step_after_raise(step) == "sleep"

\* faulty variant: every row task records under the first data row
record_result_first_row(rbr, inp, r) == dset(rbr, DATA_START_ROW, r)
\* faulty variant: a row that failed is not recorded
record_result_unless_failed(rbr, inp, r) ==
    IF r.notes # << >> THEN rbr ELSE dset(rbr, inp.row_index, r)
\* results_by_row[inp.row_index] = res
record_result(rbr, inp, r) == dset(rbr, inp.row_index, r)

Rows(j) == DOMAIN inputs[j]
\* the positions a row task can have in a batch
MaxInputs == IF MaxRows > MaxSharedRows THEN MaxRows ELSE MaxSharedRows

\* async with sem; res = {...}; the call of check_galaxus_product starts
Acquire(j, i) ==
    /\ tpc[j] = "gather"
    /\ i \in Rows(j)
    /\ rpc[j][i] = "wait"
    /\ can_acquire(sem[j])
    /\ sem' = [sem EXCEPT ![j] = @ - 1]
    /\ res' = [res EXCEPT ![j][i] = res_init(inputs[j][i])]
    /\ rpc' = [rpc EXCEPT ![j][i] = "gx"]
    /\ active' = [active EXCEPT ![j] = @ \cup {<<i, "gx">>}]
    /\ log' = [log EXCEPT ![j][i] = @ \o <<"acquire", "gx">>]
    /\ UNCHANGED <<storeVars, apiVars, xlsx, ext, taskVars, inputs, results_by_row>>

\* results_by_row[inp.row_index] = res; asyncio.sleep(1.2) starts
Record(j, i, r) ==
    /\ res' = [res EXCEPT ![j][i] = r]
    /\ results_by_row' = [results_by_row EXCEPT
                             ![j] = record_result(@, inputs[j][i], r)]
    /\ sem' = [sem EXCEPT ![j] = permits_after_record(@)]
    /\ rpc' = [rpc EXCEPT ![j][i] = "sleep"]

\* check_galaxus_product returns
GalaxusReturns(j, i) ==
    /\ tpc[j] = "gather"
    /\ i \in Rows(j)
    /\ rpc[j][i] = "gx"
    /\ \E gx \in GxResults :
         LET nxt == step_after_galaxus(inputs[j][i]) IN
         /\ res' = [res EXCEPT ![j][i] = after_galaxus(@, gx)]
         /\ rpc' = [rpc EXCEPT ![j][i] = nxt]
         /\ active' = [active EXCEPT ![j] = (@ \ {<<i, "gx">>}) \cup {<<i, nxt>>}]
         /\ log' = [log EXCEPT ![j][i] = @ \o <<"gx_ok", nxt>>]
    /\ UNCHANGED <<storeVars, apiVars, xlsx, ext, taskVars, inputs, results_by_row,
                   sem>>

\* check_keyword_rank returns; the call of check_toppreise starts
KeywordReturns(j, i) ==
    /\ tpc[j] = "gather"
    /\ i \in Rows(j)
    /\ rpc[j][i] = "kw"
    /\ \E rk \in RkResults :
         res' = [res EXCEPT ![j][i] = after_keyword(@, rk)]
    /\ rpc' = [rpc EXCEPT ![j][i] = "tp"]
    /\ active' = [active EXCEPT ![j] = (@ \ {<<i, "kw">>}) \cup {<<i, "tp">>}]
    /\ log' = [log EXCEPT ![j][i] = @ \o <<"kw_ok", "tp">>]
    /\ UNCHANGED <<storeVars, apiVars, xlsx, ext, taskVars, inputs, results_by_row,
                   sem>>

\* check_toppreise returns; the result is recorded and the pacing sleep starts
ToppreiseReturns(j, i) ==
    /\ tpc[j] = "gather"
    /\ i \in Rows(j)
    /\ rpc[j][i] = "tp"
    /\ \E tp \in TpResults : Record(j, i, after_toppreise(res[j][i], tp))
    /\ active' = [active EXCEPT ![j] = @ \ {<<i, "tp">>}]
    /\ log' = [log EXCEPT ![j][i] = @ \o <<"tp_ok", "record", "sleep">>]
    /\ UNCHANGED <<storeVars, apiVars, xlsx, ext, taskVars, inputs>>

\* the extractor call in flight raises: except Exception, then as above
ExtractorRaises(j, i) ==
    /\ tpc[j] = "gather"
    /\ i \in Rows(j)
    /\ rpc[j][i] \in {"gx", "kw", "tp"}
    /\ \E e \in ExtractorErrors :
         IF row_catches(e)
         THEN IF step_after_raise(rpc[j][i]) = "sleep"
              THEN /\ Record(j, i, after_exception(res[j][i], e))
                   /\ active' = [active EXCEPT ![j] = @ \ {<<i, rpc[j][i]>>}]
                   /\ log' = [log EXCEPT
                                ![j][i] = @ \o <<"raise", "record", "sleep">>]
                   /\ UNCHANGED taskVars
              ELSE \* the try block goes on with a later call
                   LET nxt == step_after_raise(rpc[j][i]) IN
                   /\ res' = [res EXCEPT ![j][i] = after_exception(@, e)]
                   /\ rpc' = [rpc EXCEPT ![j][i] = nxt]
                   /\ active' = [active EXCEPT
                                   ![j] = (@ \ {<<i, rpc[j][i]>>}) \cup {<<i, nxt>>}]
                   /\ log' = [log EXCEPT ![j][i] = @ \o <<"raise", nxt>>]
                   /\ UNCHANGED <<taskVars, results_by_row, sem>>
         ELSE \* the exception leaves gather and run_job_excel
              /\ terr' = [terr EXCEPT ![j] = e]
              /\ tpc' = [tpc EXCEPT ![j] = "x_get_job"]
              /\ active' = [active EXCEPT ![j] = @ \ {<<i, rpc[j][i]>>}]
              /\ log' = [log EXCEPT ![j][i] = @ \o <<"raise">>]
              /\ UNCHANGED <<tjob, trec, tresult, res, results_by_row, sem, rpc>>
    /\ UNCHANGED <<storeVars, apiVars, xlsx, ext, inputs>>

\* the pacing sleep ends; leaving "async with sem" releases the slot
SleepEnds(j, i) ==
    /\ tpc[j] = "gather"
    /\ i \in Rows(j)
    /\ rpc[j][i] = "sleep"
    /\ sem' = [sem EXCEPT ![j] = permits_after_sleep(@)]
    /\ rpc' = [rpc EXCEPT ![j][i] = "done"]
    /\ log' = [log EXCEPT ![j][i] = @ \o <<"release">>]
    /\ UNCHANGED <<storeVars, apiVars, xlsx, ext, taskVars, inputs, res,
                   results_by_row, active>>

\* ------------------------------------------------- runner.py: run_job_excel
\* load the workbook, map the headers, read the inputs, create the semaphore
\* and the row tasks; a missing ID column raises out of run_job_excel
RunJobExcel(j) ==
    /\ tpc[j] = "run"
    /\ LET headers == map_headers(xlsx[j]) IN
       IF read_inputs_raises(headers)
       THEN /\ terr' = [terr EXCEPT ![j] = ValueErrorMissingID]
            /\ tpc' = [tpc EXCEPT ![j] = "x_get_job"]
            /\ UNCHANGED rowVars
       ELSE LET inps == read_inputs(xlsx[j], headers) IN
            /\ inputs' = [inputs EXCEPT ![j] = inps]
            /\ rpc' = [rpc EXCEPT ![j] = [i \in DOMAIN inps |-> "wait"]]
            /\ res' = [res EXCEPT ![j] = [i \in DOMAIN inps |-> EmptyDict]]
            /\ log' = [log EXCEPT ![j] = [i \in DOMAIN inps |-> << >>]]
            /\ sem' = [sem EXCEPT ![j] = SemPermits]
            /\ tpc' = [tpc EXCEPT ![j] = "gather"]
            /\ UNCHANGED <<terr, results_by_row, active>>
    /\ UNCHANGED <<storeVars, apiVars, xlsx, ext, tjob, trec, tresult>>

run_job_excel_result(ws, inps, rbr) ==
    [count |-> Len(inps),
     results_by_row |-> rbr,
     excel_bytes |-> workbook_to_bytes(write_outputs(ws, map_headers(ws), rbr)),
     finished_at |-> "ts"]

\* gather returns once every row task has ended; write_outputs; return
GatherDone(j) ==
    /\ tpc[j] = "gather"
    /\ \A i \in Rows(j) : rpc[j][i] = "done"
    /\ tresult' = [tresult EXCEPT
                      ![j] = run_job_excel_result(xlsx[j], inputs[j], results_by_row[j])]
    /\ tpc' = [tpc EXCEPT ![j] = "put_results_read"]
    /\ UNCHANGED <<storeVars, apiVars, xlsx, ext, tjob, trec, terr, rowVars>>

\* ------------------------------------------------------ storage/jsonbin.py
\* _get(bin, key) or {}
get_or_empty(bin, key) == IF key \in DOMAIN bin THEN bin[key] ELSE EmptyDict
\* _upsert, second half: record[key] = value; _write_bin_record(record)
upsert_write(record, key, value) == dset(record, key, value)

\* ------------------------------------------------------ api/main.py
JobInfo(j) ==
    [job_id |-> j, status |-> "queued", created_at |-> "ts", started_at |-> None,
     finished_at |-> None, total |-> 0, done |-> 0, failed |-> 0, message |-> << >>]

EmptyResults ==
    [excel_bytes_b64 |-> << >>, results_by_row |-> EmptyDict,
     finished_at |-> None, count |-> 0]

b64encode(bytes) == <<bytes>>

running_job(job) == dset(dset(job, "status", "running"), "started_at", "ts")

done_job(job, result) ==
    dset(dset(dset(dset(job, "status", "done"), "finished_at", result.finished_at),
              "total", result.count), "done", result.count)

\* faulty variant: the handler sets the message and forgets the status
failed_job_keeps_status(job, e) ==
    dset(dset(job, "finished_at", "ts"), "message", <<e.kind, e.msg>>)
failed_job(job, e) ==
    dset(dset(dset(job, "status", "failed"), "finished_at", "ts"),
         "message", <<e.kind, e.msg>>)

\* faulty variant: the record is built without the artifact
populated_results_without_bytes(result) ==
    [excel_bytes_b64 |-> << >>,
     results_by_row |-> result.results_by_row,
     finished_at |-> result.finished_at,
     count |-> result.count]
populated_results(result) ==
    [excel_bytes_b64 |-> b64encode(result.excel_bytes),
     results_by_row |-> result.results_by_row,
     finished_at |-> result.finished_at,
     count |-> result.count]

\* create_job: the upload is not an .xlsx file, HTTP 400
CreateJobRejected ==
    /\ apiPc = "idle"
    /\ UNCHANGED vars

\* create_job: the file is read and a job id drawn
CreateJobAccepted ==
    /\ apiPc = "idle"
    /\ uploadsLeft > 0
    /\ uploadsLeft' = uploadsLeft - 1
    /\ \E sheet \in Sheets(rowsLeft) :
         /\ xlsx' = [xlsx EXCEPT ![apiJob + 1] = sheet]
         /\ rowsLeft' = rowsLeft - Len(sheet.data)
    /\ apiJob' = apiJob + 1
    /\ apiPc' = "put_job_read"
    /\ UNCHANGED <<storeVars, apiRec, taskVars, rowVars, ext>>

CreateJobPutJobRead ==
    /\ apiPc = "put_job_read"
    /\ apiRec' = jobsBin
    /\ apiPc' = "put_job_write"
    /\ UNCHANGED <<storeVars, apiJob, rowsLeft, uploadsLeft, xlsx, ext, taskVars, rowVars>>

CreateJobPutJobWrite ==
    /\ apiPc = "put_job_write"
    /\ jobsBin' = upsert_write(apiRec, apiJob, JobInfo(apiJob))
    /\ apiPc' = "put_results_read"
    /\ UNCHANGED <<resultsBin, failsLeft, apiJob, apiRec, rowsLeft, uploadsLeft,
                   xlsx, ext, taskVars, rowVars>>

CreateJobPutResultsRead ==
    /\ apiPc = "put_results_read"
    /\ apiRec' = resultsBin
    /\ apiPc' = "put_results_write"
    /\ UNCHANGED <<storeVars, apiJob, rowsLeft, uploadsLeft, xlsx, ext, taskVars, rowVars>>

\* the empty ResultRecord is written and the background task added
CreateJobPutResultsWrite ==
    /\ apiPc = "put_results_write"
    /\ resultsBin' = upsert_write(apiRec, apiJob, EmptyResults)
    /\ tpc' = [tpc EXCEPT ![apiJob] = "get_job"]
    /\ apiPc' = "idle"
    /\ UNCHANGED <<jobsBin, failsLeft, apiJob, apiRec, rowsLeft, uploadsLeft,
                   xlsx, ext, tjob, trec, terr, tresult, rowVars>>

\* a store request of create_job raises: HTTP 500, no task is added
CreateJobStoreError ==
    /\ apiPc \in {"put_job_read", "put_job_write", "put_results_read",
                  "put_results_write"}
    /\ failsLeft > 0
    /\ failsLeft' = failsLeft - 1
    /\ apiPc' = "idle"
    /\ UNCHANGED <<jobsBin, resultsBin, apiJob, apiRec, rowsLeft, uploadsLeft,
                   xlsx, ext, taskVars, rowVars>>

\* job = store.get_job(job_id) or {}; status running
TaskGetJob(j) ==
    /\ tpc[j] = "get_job"
    /\ tjob' = [tjob EXCEPT ![j] = running_job(get_or_empty(jobsBin, j))]
    /\ tpc' = [tpc EXCEPT ![j] = "put_running_read"]
    /\ UNCHANGED <<storeVars, apiVars, xlsx, ext, trec, terr, tresult, rowVars>>

\* _upsert, first half, of the three put_job calls: record = _read_bin_record
TaskPutJobRead(j) ==
    /\ tpc[j] \in {"put_running_read", "put_done_read", "x_put_read"}
    /\ trec' = [trec EXCEPT ![j] = jobsBin]
    /\ tpc' = [tpc EXCEPT ![j] =
                  CASE @ = "put_running_read" -> "put_running_write"
                    [] @ = "put_done_read" -> "put_done_write"
                    [] @ = "x_put_read" -> "x_put_write"]
    /\ UNCHANGED <<storeVars, apiVars, xlsx, ext, tjob, terr, tresult, rowVars>>

\* _upsert, second half, of the three put_job calls
TaskPutJobWrite(j) ==
    /\ tpc[j] \in {"put_running_write", "put_done_write", "x_put_write"}
    /\ jobsBin' = upsert_write(trec[j], j, tjob[j])
    /\ tpc' = [tpc EXCEPT ![j] =
                  IF @ = "put_running_write" THEN "run" ELSE "finished"]
    /\ UNCHANGED <<resultsBin, failsLeft, apiVars, xlsx, ext, tjob, trec, terr,
                   tresult, rowVars>>

TaskPutResultsRead(j) ==
    /\ tpc[j] = "put_results_read"
    /\ trec' = [trec EXCEPT ![j] = resultsBin]
    /\ tpc' = [tpc EXCEPT ![j] = "put_results_write"]
    /\ UNCHANGED <<storeVars, apiVars, xlsx, ext, tjob, terr, tresult, rowVars>>

\* the populated ResultRecord is written; the job dict is set to done
TaskPutResultsWrite(j) ==
    /\ tpc[j] = "put_results_write"
    /\ resultsBin' = upsert_write(trec[j], j, populated_results(tresult[j]))
    /\ tjob' = [tjob EXCEPT ![j] = done_job(@, tresult[j])]
    /\ tpc' = [tpc EXCEPT ![j] = "put_done_read"]
    /\ UNCHANGED <<jobsBin, failsLeft, apiVars, xlsx, ext, trec, terr, tresult, rowVars>>

TryStorePcs == {"get_job", "put_running_read", "put_running_write",
                "put_results_read", "put_results_write",
                "put_done_read", "put_done_write"}
HandlerStorePcs == {"x_get_job", "x_put_read", "x_put_write"}

\* a store request inside the try block raises: except Exception as e
TaskStoreError(j) ==
    /\ tpc[j] \in TryStorePcs
    /\ failsLeft > 0
    /\ failsLeft' = failsLeft - 1
    /\ terr' = [terr EXCEPT ![j] = HTTPError]
    /\ tpc' = [tpc EXCEPT ![j] = "x_get_job"]
    /\ UNCHANGED <<jobsBin, resultsBin, apiVars, xlsx, ext, tjob, trec, tresult, rowVars>>

\* the handler: job = store.get_job(job_id) or {}; status failed
HandlerGetJob(j) ==
    /\ tpc[j] = "x_get_job"
    /\ tjob' = [tjob EXCEPT ![j] = failed_job(get_or_empty(jobsBin, j), terr[j])]
    /\ tpc' = [tpc EXCEPT ![j] = "x_put_read"]
    /\ UNCHANGED <<storeVars, apiVars, xlsx, ext, trec, terr, tresult, rowVars>>

\* a store request inside the handler raises: the exception leaves the task
HandlerStoreError(j) ==
    /\ tpc[j] \in HandlerStorePcs
    /\ failsLeft > 0
    /\ failsLeft' = failsLeft - 1
    /\ tpc' = [tpc EXCEPT ![j] = "crashed"]
    /\ UNCHANGED <<jobsBin, resultsBin, apiVars, xlsx, ext, tjob, trec, terr,
                   tresult, rowVars>>

RowStep(j, i) ==
    \/ Acquire(j, i)
    \/ GalaxusReturns(j, i)
    \/ KeywordReturns(j, i)
    \/ ToppreiseReturns(j, i)
    \/ ExtractorRaises(j, i)
    \/ SleepEnds(j, i)

TaskStep(j) ==
    \/ TaskGetJob(j)
    \/ TaskPutJobRead(j)
    \/ TaskPutJobWrite(j)
    \/ RunJobExcel(j)
    \/ GatherDone(j)
    \/ TaskPutResultsRead(j)
    \/ TaskPutResultsWrite(j)
    \/ TaskStoreError(j)
    \/ HandlerGetJob(j)
    \/ HandlerStoreError(j)

ApiStep ==
    \/ CreateJobRejected
    \/ CreateJobAccepted
    \/ CreateJobPutJobRead
    \/ CreateJobPutJobWrite
    \/ CreateJobPutResultsRead
    \/ CreateJobPutResultsWrite
    \/ CreateJobStoreError

Next ==
    \/ ApiStep
    \/ \E j \in Jobs : TaskStep(j)
    \/ \E j \in Jobs : \E i \in 1..MaxInputs : RowStep(j, i)

\* one job against the store
Spec == Init /\ [][Next]_vars

\* several jobs against the same store
SpecStore == InitStore /\ [][Next]_vars

\* ------------------------------------------------------------- the claims
Terminal == {"done", "failed"}
\* the rows between acquiring and releasing the semaphore
InSection(j) == { i \in Rows(j) : rpc[j][i] \in {"gx", "kw", "tp", "sleep"} }
Waiting(j) == { i \in Rows(j) : rpc[j][i] = "wait" }
\* gather has returned: every row task has ended
PipelineFinished(j) ==
    \/ tpc[j] = "gather" /\ \A i \in Rows(j) : rpc[j][i] = "done"
    \/ tresult[j] # NoResult
RowIndices(j) == { inputs[j][i].row_index : i \in Rows(j) }
Count(q, e) == Cardinality({ k \in DOMAIN q : q[k] = e })
\* the row's call of check_galaxus_product has raised
GalaxusRaised(j, i) ==
    Len(log[j][i]) >= 3 /\ SubSeq(log[j][i], 1, 3) = <<"acquire", "gx", "raise">>
LogAllReturned(inp) ==
    IF inp.keyword # << >>
    THEN <<"acquire", "gx", "gx_ok", "kw", "kw_ok", "tp", "tp_ok", "record",
           "sleep", "release">>
    ELSE <<"acquire", "gx", "gx_ok", "tp", "tp_ok", "record", "sleep", "release">>

\* C1: in every reachable state of run_job_excel, whatever the batch size and
\* the interleaving of the row tasks, at most 2 rows are between acquiring
\* and releasing the shared semaphore.
C1_AtMostTwoInSection ==
    \A j \in Jobs : Cardinality(InSection(j)) <= 2

\* a batch of more than 2 rows with two rows in the section and one waiting
C1_Witness ==
    \E j \in Jobs : /\ Len(inputs[j]) > 2
                     /\ Cardinality(InSection(j)) = 2
                     /\ Waiting(j) # {}

\* C2: when the row pipeline has finished, results_by_row has exactly one
\* RowResult per parsed InputRow, its keys are the row indices of the
\* InputRows, and every row task recorded its result exactly once, whether
\* its extractors returned or raised.
C2_OneResultPerRow ==
    \A j \in Jobs : PipelineFinished(j) =>
        /\ DOMAIN results_by_row[j] = RowIndices(j)
        /\ Cardinality(DOMAIN results_by_row[j]) = Len(inputs[j])
        /\ \A i \in Rows(j) :
              /\ Count(log[j][i], "record") = 1
              /\ results_by_row[j][inputs[j][i].row_index] = res[j][i]
        /\ tresult[j] # NoResult =>
              /\ tresult[j].results_by_row = results_by_row[j]
              /\ tresult[j].count = Len(inputs[j])

\* a finished batch in which one row raised and another returned from all steps
C2_Witness ==
    \E j \in Jobs :
        /\ tresult[j] # NoResult
        /\ \E i, k \in Rows(j) :
              /\ "raise" \in { log[j][i][n] : n \in DOMAIN log[j][i] }
              /\ log[j][k] = LogAllReturned(inputs[j][k])

\* C3: in a batch where a row's first extractor raises, that row still has a
\* RowResult with non-empty notes, the error does not become the job's error,
\* and the job whose store requests all succeeded ends with status done.
C3_RowFailureIsNotJobFailure ==
    \A j \in Jobs :
        (\E i \in Rows(j) : GalaxusRaised(j, i)) =>
            /\ \A i \in Rows(j) :
                  GalaxusRaised(j, i) =>
                    /\ inputs[j][i].row_index \in DOMAIN results_by_row[j]
                    /\ results_by_row[j][inputs[j][i].row_index].notes # << >>
            /\ terr[j] \notin ExtractorErrors
            /\ tpc[j] \notin {"x_get_job", "x_put_read", "x_put_write", "crashed"}
                  \/ terr[j] = HTTPError
            /\ (tpc[j] = "finished" /\ failsLeft = MaxStoreFailures) =>
                  /\ jobsBin[j].status = "done"
                  /\ resultsBin[j].results_by_row = results_by_row[j]

\* a job that ended done with one row whose first extractor raised and
\* another row whose extractors all returned
C3_Witness ==
    \E j \in Jobs :
        /\ tpc[j] = "finished"
        /\ j \in DOMAIN jobsBin /\ jobsBin[j].status = "done"
        /\ \E i, k \in Rows(j) :
              /\ GalaxusRaised(j, i)
              /\ log[j][k] = LogAllReturned(inputs[j][k])
              /\ results_by_row[j][inputs[j][i].row_index].notes # << >>

\* C4 (as claimed): whenever a stored JobRecord has status done, the
\* ResultRecord stored under the same job id has as many rows as the
\* JobRecord's total, and total equals done.
C4_DoneCountsAgree ==
    \A j \in DOMAIN jobsBin :
        jobsBin[j].status = "done" =>
            /\ j \in DOMAIN resultsBin
            /\ Cardinality(DOMAIN resultsBin[j].results_by_row) = jobsBin[j].total
            /\ jobsBin[j].total = jobsBin[j].done

\* the moves of a stored status the lifecycle allows
LifecycleMoves == { <<"queued", "running">>, <<"queued", "failed">>,
                    <<"running", "done">>, <<"running", "failed">> }

\* C5 (as claimed): a stored status is queued when it first appears, only
\* moves forward along queued -> running -> (done | failed), never reaches
\* done from queued, and never changes once it is done or failed.
C5_Lifecycle ==
    [][\A j \in Jobs :
          /\ (j \notin DOMAIN jobsBin /\ j \in DOMAIN jobsBin') =>
                jobsBin'[j].status = "queued"
          /\ (j \in DOMAIN jobsBin /\ j \in DOMAIN jobsBin') =>
                \/ jobsBin'[j].status = jobsBin[j].status
                \/ <<jobsBin[j].status, jobsBin'[j].status>> \in LifecycleMoves]_vars

HandlerPcs == {"x_get_job", "x_put_read", "x_put_write"}
ReturnedPcs == {"put_results_read", "put_results_write", "put_done_read",
                "put_done_write"}

\* C6: for a job whose header row has no ID column, no row task exists, no
\* extractor call is made and no semaphore permit is taken; run_job_excel
\* never returns; the job's stored status is never done; and when no store
\* request failed, the handler caught the ValueError and the task ends with
\* the stored status failed and the message naming the error.
C6_MissingIdFailsJob ==
    \A j \in Jobs :
        (j <= apiJob /\ H_ID \notin DOMAIN map_headers(xlsx[j])) =>
            /\ inputs[j] = << >> /\ rpc[j] = << >> /\ log[j] = << >>
            /\ active[j] = {} /\ sem[j] = 2
            /\ results_by_row[j] = EmptyDict /\ tresult[j] = NoResult
            /\ tpc[j] \notin ReturnedPcs \cup {"gather"}
            /\ j \in DOMAIN jobsBin => jobsBin[j].status # "done"
            /\ (tpc[j] \in HandlerPcs \cup {"finished"} /\ failsLeft = MaxStoreFailures) =>
                  terr[j] = [kind |-> "ValueError",
                             msg |-> "Missing required column header 'ID' in row 3."]
            /\ (tpc[j] = "finished" /\ failsLeft = MaxStoreFailures) =>
                  /\ jobsBin[j].status = "failed"
                  /\ jobsBin[j].message =
                       <<"ValueError", "Missing required column header 'ID' in row 3.">>

\* a job without ID column but with data rows that ended failed
C6_Witness ==
    \E j \in Jobs :
        /\ j <= apiJob /\ H_ID \notin DOMAIN map_headers(xlsx[j])
        /\ Len(xlsx[j].data) > 0
        /\ tpc[j] = "finished"
        /\ jobsBin[j].status = "failed"

\* C7 (as claimed): a task that has ended, by returning or by an exception,
\* has left its job with a terminal stored status.
C7_EndedTaskIsTerminal ==
    \A j \in Jobs :
        tpc[j] \in {"finished", "crashed"} =>
            j \in DOMAIN jobsBin /\ jobsBin[j].status \in Terminal

IsCall(e) == e \in {"gx", "kw", "tp"}
\* the extractor calls a row task has made, in order
Calls(j, i) == SelectSeq(log[j][i], IsCall)
Events(j, i) == { log[j][i][n] : n \in DOMAIN log[j][i] }
ActiveOf(j, i) == { a \in active[j] : a[1] = i }

\* C8: a row's extractor calls are made in the order check_galaxus_product,
\* check_keyword_rank, check_toppreise, each only after the one before has
\* returned and only while the row holds its slot, never two at once;
\* check_keyword_rank is called only for a non-empty keyword and, once
\* check_galaxus_product has returned, exactly for a non-empty keyword; with
\* an empty keyword keyword_rank stays empty and keyword_over_48 false.
C8_StepsInOrder ==
    \A j \in Jobs : \A i \in Rows(j) :
        /\ Calls(j, i) \in { << >>, <<"gx">>, <<"gx", "kw">>, <<"gx", "tp">>,
                             <<"gx", "kw", "tp">> }
        /\ Cardinality(ActiveOf(j, i)) <= 1
        /\ \A a \in ActiveOf(j, i) : rpc[j][i] = a[2] /\ i \in InSection(j)
        /\ rpc[j][i] \in {"gx", "kw", "tp"} => ActiveOf(j, i) = {<<i, rpc[j][i]>>}
        /\ \A n \in DOMAIN log[j][i] :
              /\ log[j][i][n] = "gx" => log[j][i][n - 1] = "acquire"
              /\ log[j][i][n] = "kw" => log[j][i][n - 1] = "gx_ok"
              /\ log[j][i][n] = "tp" => log[j][i][n - 1] \in {"gx_ok", "kw_ok"}
        /\ "kw" \in Events(j, i) => inputs[j][i].keyword # << >>
        /\ "gx_ok" \in Events(j, i) =>
              ("kw" \in Events(j, i) <=> inputs[j][i].keyword # << >>)
        /\ (inputs[j][i].keyword = << >> /\ rpc[j][i] # "wait") =>
              res[j][i].keyword_rank = NoRank /\ ~res[j][i].keyword_over_48

\* a batch with a keyword row that made all three calls and a row without
\* keyword that made two
C8_Witness ==
    \E j \in Jobs : \E i, k \in Rows(j) :
        /\ rpc[j][i] = "done" /\ Calls(j, i) = <<"gx", "kw", "tp">>
        /\ rpc[j][k] = "done" /\ Calls(j, k) = <<"gx", "tp">>
        /\ inputs[j][k].keyword = << >>

\* C9: when a step of a row raises, notes names the error kind and message,
\* the fields of the steps that returned before keep the returned values,
\* the fields of the failed and later steps are false / empty, and this is
\* the RowResult recorded for the row.
C9_FailureKeepsPriorResults ==
    \A j \in Jobs : \A i \in Rows(j) :
        "raise" \in Events(j, i) =>
            LET r == results_by_row[j][inputs[j][i].row_index] IN
            /\ r = res[j][i]
            /\ \E e \in ExtractorErrors : r.notes = <<"ERROR:", e.kind, e.msg>>
            /\ r.keyword = inputs[j][i].keyword
            /\ IF "gx_ok" \in Events(j, i)
               THEN \E gx \in GxResults :
                      /\ r.galaxus_url = gx.url
                      /\ r.availability_text = gx.availability_text
                      /\ r.images_ok = (gx.images_count >= 6)
                      /\ r.videos_ok = (gx.videos_count >= 1)
                      /\ r.bullets_ok = gx.bullets_ok
                      /\ r.galaxus_price = gx.price_chf
               ELSE /\ r.galaxus_url = "" /\ r.availability_text = << >>
                    /\ ~r.images_ok /\ ~r.videos_ok /\ ~r.bullets_ok
                    /\ r.galaxus_price = << >>
            /\ IF "kw_ok" \in Events(j, i)
               THEN \E rk \in RkResults :
                      r.keyword_rank = rk.rank /\ r.keyword_over_48 = rk.over_48
               ELSE r.keyword_rank = NoRank /\ ~r.keyword_over_48
            /\ r.toppreise_price = << >> /\ r.toppreise_vendor = << >>

\* a row whose check_toppreise raised after the two earlier steps returned
C9_Witness ==
    \E j \in Jobs : \E i \in Rows(j) :
        /\ log[j][i] = <<"acquire", "gx", "gx_ok", "kw", "kw_ok", "tp", "raise",
                         "record", "sleep", "release">>
        /\ results_by_row[j][inputs[j][i].row_index].keyword_rank = 3
        /\ results_by_row[j][inputs[j][i].row_index].images_ok

Recorded(j) == { i \in Rows(j) : inputs[j][i].row_index \in DOMAIN results_by_row[j] }
Sleeping(j) == { i \in Rows(j) : rpc[j][i] = "sleep" }
Ended(j) == { i \in Rows(j) : rpc[j][i] = "done" }
LogTail(j, i, n) == SubSeq(log[j][i], Len(log[j][i]) - n + 1, Len(log[j][i]))

\* C10: a row that has recorded its RowResult, after a success or a caught
\* failure, sleeps while it still holds its slot and releases the slot only
\* when the sleep has ended: the free permits are 2 less the rows in
\* extraction or asleep, so the rows that ever started are at most 2 more
\* than the rows whose sleep has ended.
C10_SleepBeforeRelease ==
    \A j \in Jobs :
        /\ sem[j] = 2 - Cardinality(InSection(j))
        /\ Recorded(j) = Sleeping(j) \cup Ended(j)
        /\ \A i \in Sleeping(j) : LogTail(j, i, 2) = <<"record", "sleep">>
        /\ \A i \in Ended(j) : LogTail(j, i, 3) = <<"record", "sleep", "release">>
        /\ Cardinality(Rows(j) \ Waiting(j)) <= 2 + Cardinality(Ended(j))

\* two rows asleep in their slots, one after a failure and one after a
\* success, while a third row waits for a permit
C10_Witness ==
    \E j \in Jobs : \E i, k \in Sleeping(j) :
        /\ "raise" \in Events(j, i)
        /\ "tp_ok" \in Events(j, k)
        /\ Waiting(j) # {}
        /\ sem[j] = 0

\* ------------------------------------------------------------ str, as chars
\* a Python str is a sequence of one-character strings
Range(f) == { f[k] : k \in DOMAIN f }
UpperChars == <<"A", "B", "C", "D", "E", "F", "G", "H", "I", "J", "K", "L", "M", "N", "O", "P", "Q", "R", "S", "T", "U", "V", "W", "X", "Y", "Z">>
LowerChars == <<"a", "b", "c", "d", "e", "f", "g", "h", "i", "j", "k", "l", "m", "n", "o", "p", "q", "r", "s", "t", "u", "v", "w", "x", "y", "z">>
Whitespace == {" "}
DigitChars == <<"0", "1", "2", "3", "4", "5", "6", "7", "8", "9">>
\* the character class [\d'.,]
PriceClass == {"0", "1", "2", "3", "4", "5", "6", "7", "8", "9", "'", ".", ","}

lower_char(c) ==
    IF \E k \in DOMAIN UpperChars : UpperChars[k] = c
    THEN LowerChars[CHOOSE k \in DOMAIN UpperChars : UpperChars[k] = c]
    ELSE c
upper_char(c) ==
    IF \E k \in DOMAIN LowerChars : LowerChars[k] = c
    THEN UpperChars[CHOOSE k \in DOMAIN LowerChars : LowerChars[k] = c]
    ELSE c
\* faulty variant: lower() leaves the text as it is
lower_keeps_case(t) == t
\* str.lower()
lower(t) == [k \in DOMAIN t |-> lower_char(t[k])]
\* str.capitalize()
capitalize(t) ==
    [k \in DOMAIN t |-> IF k = 1 THEN upper_char(t[k]) ELSE lower_char(t[k])]
\* p stands in t at position i
StartsAt(p, t, i) ==
    /\ i + Len(p) - 1 <= Len(t)
    /\ \A k \in DOMAIN p : t[i + k - 1] = p[k]
\* p in t
Contains(p, t) == \E i \in 1..(Len(t) + 1) : StartsAt(p, t, i)
\* str.replace(c, "")
remove_char(s, c) == SelectSeq(s, LAMBDA x : x # c)
\* str.replace(c, d)
replace_char(s, c, d) == [k \in DOMAIN s |-> IF s[k] = c THEN d ELSE s[k]]
\* the first position from i on whose character is not in S
RECURSIVE run_end(_, _, _)
run_end(t, i, S) ==
    IF i <= Len(t) /\ t[i] \in S THEN run_end(t, i + 1, S) ELSE i
RECURSIVE Concat(_)
Concat(parts) ==
    IF parts = << >> THEN << >> ELSE Head(parts) \o Concat(Tail(parts))

\* re.sub(r"\s+", " ", s): every run of whitespace becomes one blank
RECURSIVE collapse(_)
collapse(s) ==
    IF s = << >> THEN << >>
    ELSE IF s[1] \in Whitespace
    THEN <<" ">> \o collapse(SubSeq(s, run_end(s, 1, Whitespace), Len(s)))
    ELSE <<s[1]>> \o collapse(Tail(s))
\* str.strip()
strip(s) ==
    LET a == run_end(s, 1, Whitespace)
        keep == { k \in DOMAIN s : s[k] \notin Whitespace }
    IN  IF keep = {} THEN << >>
        ELSE SubSeq(s, a, CHOOSE k \in keep : \A h \in keep : h <= k)
\* galaxus.py and toppreise.py: _clean
_clean(s) == strip(collapse(s))

\* ------------------------------------------------ toppreise.py: the vendors
ALLOWED_VENDOR_PATTERNS == <<
    <<"i", "n", "t", "e", "r", "d", "i", "s", "c", "o", "u", "n", "t">>,
    <<"m", "e", "d", "i", "a", "m", "a", "r", "k", "t">>,
    <<"n", "e", "t", "t", "o", "s", "h", "o", "p">>,
    <<"b", "r", "a", "c", "k">>,
    <<"f", "u", "s", "t">>,
    <<"p", "h", "i", "l", "i", "p", "s">>,
    <<"b", "a", "b", "y", "m", "a", "r", "k", "t">>,
    <<"b", "a", "b", "y", "-", "m", "a", "r", "k", "t">>,
    <<"b", "a", "b", "y", "m", "a", "r", "k", "t", ".", "c", "o", "m">>,
    <<"b", "a", "b", "y", "m", "a", "r", "k", "t", ".", "c", "h">>,
    <<"b", "a", "b", "y", "w", "a", "l", "z">>,
    <<"b", "a", "b", "y", "-", "w", "a", "l", "z">>,
    <<"b", "a", "b", "y", "-", "w", "a", "l", "z", ".", "c", "h">>>>
S_babymarkt == <<"b", "a", "b", "y", "m", "a", "r", "k", "t">>
S_baby_markt == <<"b", "a", "b", "y", "-", "m", "a", "r", "k", "t">>
S_babywalz == <<"b", "a", "b", "y", "w", "a", "l", "z">>
S_baby_walz == <<"b", "a", "b", "y", "-", "w", "a", "l", "z">>
Babymarkt == <<"B", "a", "b", "y", "m", "a", "r", "k", "t">>
Babywalz == <<"B", "a", "b", "y", "w", "a", "l", "z">>
Fust == <<"F", "u", "s", "t">>

\* the canonical name of the vendor a pattern stands for
canonical(pattern) ==
    IF Contains(S_babymarkt, pattern) \/ Contains(S_baby_markt, pattern)
    THEN Babymarkt
    ELSE IF Contains(S_babywalz, pattern) \/ Contains(S_baby_walz, pattern)
    THEN Babywalz
    ELSE capitalize(pattern)

\* the loop over ALLOWED_VENDOR_PATTERNS from pattern k on
RECURSIVE first_vendor(_, _)
first_vendor(t, k) ==
    IF k > Len(ALLOWED_VENDOR_PATTERNS) THEN << >>
    ELSE IF Contains(ALLOWED_VENDOR_PATTERNS[k], t)
    THEN canonical(ALLOWED_VENDOR_PATTERNS[k])
    ELSE first_vendor(t, k + 1)

_normalize_vendor_from_text(container_text) ==
    first_vendor(lower(container_text), 1)

\* ----------------------------------- galaxus.py, toppreise.py: the prices
S_CHF == <<"C", "H", "F">>
digit(c) == CHOOSE d \in 0..9 : DigitChars[d + 1] = c
RECURSIVE digits_value(_)
digits_value(ds) ==
    IF ds = << >> THEN 0
    ELSE digits_value(SubSeq(ds, 1, Len(ds) - 1)) * 10 + digit(ds[Len(ds)])
RECURSIVE strip_zeros(_)
strip_zeros(ds) ==
    IF ds # << >> /\ ds[Len(ds)] = "0"
    THEN strip_zeros(SubSeq(ds, 1, Len(ds) - 1))
    ELSE ds
RECURSIVE Pow10(_)
Pow10(k) == IF k = 0 THEN 1 ELSE 10 * Pow10(k - 1)

\* float(s) raises ValueError: s is not digits with at most one point
float_raises(s) ==
    \/ \E k \in DOMAIN s : s[k] \notin (Range(DigitChars) \cup {"."})
    \/ Cardinality({ k \in DOMAIN s : s[k] = "." }) > 1
    \/ \A k \in DOMAIN s : s[k] = "."
\* float(s): the number m / 10^k, with no trailing zero in m unless k = 0
float(s) ==
    LET dot == run_end(s, 1, Range(DigitChars))
        whole == SubSeq(s, 1, dot - 1)
        frac == strip_zeros(SubSeq(s, dot + 1, Len(s)))
    IN  [m |-> digits_value(whole \o frac), k |-> Len(frac)]
\* a < b for two floats
float_lt(a, b) == a.m * Pow10(b.k) < b.m * Pow10(a.k)

\* re.search(r"([\d'.,]+)", text): the positions where a match can start
class_starts(text) == { i \in DOMAIN text : text[i] \in PriceClass }
\* re.search(r"CHF\s*([\d'.,]+)", text): the positions where "CHF" stands,
\* followed by whitespace or none and then by a character of the class
chf_starts(text) ==
    { i \in DOMAIN text :
        /\ StartsAt(S_CHF, text, i)
        /\ LET g == run_end(text, i + 3, Whitespace)
           IN  g <= Len(text) /\ text[g] \in PriceClass }
Min(S) == CHOOSE x \in S : \A y \in S : x <= y
\* m.group(1): the longest run of the class from position g on
group1(text, g) == SubSeq(text, g, run_end(text, g, PriceClass) - 1)

\* galaxus.py: the price as a str, "" when there is no match
_price_to_chf(text) ==
    IF chf_starts(text) = {} THEN << >>
    ELSE LET g == run_end(text, Min(chf_starts(text)) + 3, Whitespace)
         IN  remove_char(group1(text, g), "'")

\* toppreise.py: the price as a float in a sequence, << >> for None
_parse_price(text) ==
    IF text = << >> THEN << >>
    ELSE IF class_starts(text) = {} THEN << >>
    ELSE LET s == replace_char(remove_char(group1(text, Min(class_starts(text))),
                                           "'"), ",", ".")
         IN  IF float_raises(s) THEN << >> ELSE <<float(s)>>

\* ------------------------------------------- the parsers, called on a text
MaxVendorParts == 2
MaxPriceParts == 3
VendorParts == {
    <<"b", "a", "b", "y", "-", "m", "a", "r", "k", "t", ".", "c", "h">>,
    <<"b", "a", "b", "y", "-", "w", "a", "l", "z">>,
    <<"F", "u", "s", "t">>,
    <<"F", "U", "S", "T">>,
    <<"b", "r", "a", "c", "k">>,
    <<"D", "i", "g", "i", "t", "e", "c">>,
    <<" ">>,
    <<"M", "e", "d", "i", "a">>,
    <<"M", "a", "r", "k", "t">>}
PriceParts == {
    <<"C", "H", "F">>,
    <<" ">>,
    <<"1", "'", "2", "3", "4", ".", "5", "0">>,
    <<"1", "9", ".", "endash">>,
    <<"1", "9", ".", "9", "0">>,
    <<"a", "b">>,
    <<".">>,
    <<"2", ",", "5">>}
VendorTexts == { Concat(q) : q \in SeqsUpTo(VendorParts, MaxVendorParts) }
PriceTexts == { Concat(q) : q \in SeqsUpTo(PriceParts, MaxPriceParts) }

InitText ==
    /\ InitProgram /\ uploadsLeft = 0 /\ rowsLeft = 0
    /\ \/ \E t \in VendorTexts : ext = [pc |-> "vendor", text |-> t]
       \/ \E t \in PriceTexts : ext = [pc |-> "price", text |-> t]

NormalizeVendor ==
    /\ ext.pc = "vendor"
    /\ ext' = [pc |-> "vendor_ret", text |-> ext.text,
               result |-> _normalize_vendor_from_text(ext.text)]
    /\ UNCHANGED pipeVars

PriceToChf ==
    /\ ext.pc = "price"
    /\ ext' = [pc |-> "price_to_chf_ret", text |-> ext.text,
               result |-> _price_to_chf(ext.text)]
    /\ UNCHANGED pipeVars

ParsePrice ==
    /\ ext.pc = "price"
    /\ ext' = [pc |-> "parse_price_ret", text |-> ext.text,
               result |-> _parse_price(ext.text)]
    /\ UNCHANGED pipeVars

NextText == NormalizeVendor \/ PriceToChf \/ ParsePrice
\* one parser call on one text
SpecText == InitText /\ [][NextText]_vars

\* ------------------------------------------------- the claims on the parsers
S_baby_markt_ch == <<"b", "a", "b", "y", "-", "m", "a", "r", "k", "t", ".", "c", "h">>
S_fust == <<"f", "u", "s", "t">>
\* the lower-case word p stands in t, in whatever case t spells it
ContainsAnyCase(p, t) ==
    \E i \in 1..(Len(t) + 1) :
        /\ i + Len(p) - 1 <= Len(t)
        /\ \A k \in DOMAIN p : t[i + k - 1] \in {p[k], upper_char(p[k])}
\* t names, in any case, one of the first n patterns of the list
NamesOneOfFirst(n, t) ==
    \E k \in 1..n : ContainsAnyCase(ALLOWED_VENDOR_PATTERNS[k], t)

\* C15 (as stated): any text containing "baby-markt.ch" is mapped to
\* Babymarkt, any text containing "baby-walz" to Babywalz, any text containing
\* "fust" in any case to Fust, and a text with none of the patterns to "".
C15_VendorByAnyPattern ==
    ext.pc = "vendor_ret" =>
        /\ ContainsAnyCase(S_baby_markt_ch, ext.text) => ext.result = Babymarkt
        /\ ContainsAnyCase(S_baby_walz, ext.text) => ext.result = Babywalz
        /\ ContainsAnyCase(S_fust, ext.text) => ext.result = Fust
        /\ ~NamesOneOfFirst(Len(ALLOWED_VENDOR_PATTERNS), ext.text)
               => ext.result = << >>

\* C15 (amended): the same four cases hold when the text names no vendor whose
\* pattern stands earlier in ALLOWED_VENDOR_PATTERNS: none of the six before
\* the Babymarkt patterns, none of the ten before the Babywalz patterns, none
\* of the four before "fust".
C15_VendorByFirstPattern ==
    ext.pc = "vendor_ret" =>
        /\ (ContainsAnyCase(S_baby_markt_ch, ext.text)
              /\ ~NamesOneOfFirst(6, ext.text)) => ext.result = Babymarkt
        /\ (ContainsAnyCase(S_baby_walz, ext.text)
              /\ ~NamesOneOfFirst(10, ext.text)) => ext.result = Babywalz
        /\ (ContainsAnyCase(S_fust, ext.text)
              /\ ~NamesOneOfFirst(4, ext.text)) => ext.result = Fust
        /\ ~NamesOneOfFirst(Len(ALLOWED_VENDOR_PATTERNS), ext.text)
               => ext.result = << >>

\* an upper-case FUST next to a word that is no vendor was mapped to Fust
C15_Witness ==
    /\ ext.pc = "vendor_ret"
    /\ ContainsAnyCase(S_fust, ext.text)
    /\ ~Contains(S_fust, ext.text)
    /\ Len(ext.text) > Len(S_fust)
    /\ ext.result = Fust

T_CHF_1234_50 == <<"C", "H", "F", " ", "1", "'", "2", "3", "4", ".", "5", "0">>
T_CHF_19_dash == <<"C", "H", "F", " ", "1", "9", ".", "endash">>
S_1234_50 == <<"1", "2", "3", "4", ".", "5", "0">>

\* C16: from "CHF 1'234.50" both parsers get the number 1234.50, and from
\* "CHF 19.-" (a dash where the decimals would stand) both get the empty price.
C16_PriceExamples ==
    /\ (ext.pc = "price_to_chf_ret" /\ ext.text = T_CHF_1234_50)
           => ext.result = S_1234_50
    /\ (ext.pc = "parse_price_ret" /\ ext.text = T_CHF_1234_50)
           => ext.result = <<[m |-> 12345, k |-> 1]>>
    /\ (ext.pc \in {"price_to_chf_ret", "parse_price_ret"}
          /\ ext.text = T_CHF_19_dash) => ext.result = << >>

\* ------------------------------------------ the extractors, one call each
\* the browser session of a call: the Playwright driver, the browser it
\* launched and the browser context, each "none", "open" or "closed"
NoSession == [driver |-> "none", browser |-> "none", context |-> "none"]
closed_if_open(x) == IF x = "open" THEN "closed" ELSE x
\* faulty variant: leaving the scope stops the driver and nothing else
playwright_exit_keeps_browser(s) == [s EXCEPT !.driver = "closed"]
\* leaving "async with async_playwright() as p", by return or by exception:
\* the driver is stopped and what it launched ends with it
playwright_exit(s) ==
    [driver |-> "closed", browser |-> closed_if_open(s.browser),
     context |-> closed_if_open(s.context)]

MaxLinks == 2
ProductId == <<"1", "2", "3">>
\* the links of a search result page: text, href and the product whose page
\* the link leads to
Links == {
    [text |-> <<"A", " ", "1", "2", "3">>, href |-> <<"/", "p", "/", "1", "2", "3">>, product |-> <<"1", "2", "3">>],
    [text |-> <<"Z", " ", "1", "2", "3">>, href |-> <<"/", "p", "/", "7", "7", "7">>, product |-> <<"7", "7", "7">>],
    [text |-> <<"B", " ", "9", "9", "9">>, href |-> <<"/", "p", "/", "9", "9", "9">>, product |-> <<"9", "9", "9">>],
    [text |-> <<"H", "i", "l", "f", "e">>, href |-> <<"#">>, product |-> << >>]}
SearchPages == SeqsUpTo(Links, MaxLinks)
\* the product page a link leads to
ProductPage(product) ==
    [url |-> <<"/", "p", "/">> \o product, product |-> product,
     availability_text |-> <<"morgen", WS, "geliefert">>,
     images_count |-> 6, videos_count |-> 1, short_li |-> 5,
     price_text |-> <<" ", "C", "H", "F", " ", " ", "1", "9", "9", ".", "0", "0", " ">>]
NoPage == [url |-> << >>, product |-> << >>, availability_text |-> << >>,
           images_count |-> 0, videos_count |-> 0, short_li |-> 0,
           price_text |-> << >>]
BulletsMin == 5

\* page.locator("a:has-text('<product_id>')"): the links it matches, in order
has_text(links, product_id) ==
    SelectSeq(links, LAMBDA a : Contains(lower(product_id), lower(a.text)))
\* page.locator("a[href*='/']"): the links it matches, in order
href_has_slash(links) == SelectSeq(links, LAMBDA a : Contains(<<"/">>, a.href))
\* the locator "link" after the fallback: the first element of it is clicked
link_locator(links, product_id) ==
    IF Len(has_text(links, product_id)) = 0
    THEN href_has_slash(links)
    ELSE has_text(links, product_id)

InitGalaxus ==
    \E links \in SearchPages :
        ext = [pc |-> "enter", fn |-> "check_galaxus_product",
               session |-> NoSession, product_id |-> ProductId,
               search |-> links, link |-> << >>, page |-> NoPage,
               result |-> EmptyDict]

\* async with async_playwright() as p
EnterPlaywright ==
    /\ ext.pc = "enter"
    /\ ext' = [ext EXCEPT !.pc = "launch", !.session.driver = "open"]
    /\ UNCHANGED pipeVars

\* browser = await p.chromium.launch(headless=True)
Launch ==
    /\ ext.pc = "launch"
    /\ ext' = [ext EXCEPT !.pc = "new_context", !.session.browser = "open"]
    /\ UNCHANGED pipeVars

\* context = await browser.new_context(...); page = await context.new_page()
NewContext ==
    /\ ext.pc = "new_context"
    /\ ext' = [ext EXCEPT !.pc = "goto", !.session.context = "open"]
    /\ UNCHANGED pipeVars

\* where each extractor goes on after the search page is loaded
after_goto(fn) ==
    CASE fn = "check_galaxus_product" -> "link_count"
      [] fn = "check_keyword_rank" -> "content"
      [] fn = "check_toppreise" -> "result_link"

\* await page.goto(...); the cookie banner; wait_for_timeout
Goto ==
    /\ ext.pc = "goto"
    /\ ext' = [ext EXCEPT !.pc = after_goto(ext.fn)]
    /\ UNCHANGED pipeVars

\* await context.close()
CloseContext ==
    /\ ext.pc = "close_context"
    /\ ext' = [ext EXCEPT !.pc = "close_browser", !.session.context = "closed"]
    /\ UNCHANGED pipeVars

\* await browser.close()
CloseBrowser ==
    /\ ext.pc = "close_browser"
    /\ ext' = [ext EXCEPT !.pc = "return", !.session.browser = "closed"]
    /\ UNCHANGED pipeVars

\* return ...: the call leaves the "async with" block
Return ==
    /\ ext.pc = "return"
    /\ ext' = [ext EXCEPT !.pc = "returned",
                          !.session = playwright_exit(ext.session)]
    /\ UNCHANGED pipeVars

\* the positions at which the call awaits Playwright
AwaitPcs == {"launch", "new_context", "goto", "link_count", "click", "extract",
             "content", "wheel", "result_link", "result_click", "count",
             "node", "close_context", "close_browser"}

\* an awaited Playwright call raises: the exception leaves the "async with"
\* block and the call
AwaitRaises ==
    /\ ext.pc \in AwaitPcs
    /\ ext' = [ext EXCEPT !.pc = "raised",
                          !.session = playwright_exit(ext.session)]
    /\ UNCHANGED pipeVars

\* ------------------------------------- galaxus.py: check_galaxus_product
\* link = ...first; if await link.count() == 0: link = ...first
GalaxusLinkCount ==
    /\ ext.pc = "link_count"
    /\ ext' = [ext EXCEPT !.pc = "click",
                          !.link = link_locator(ext.search, ext.product_id)]
    /\ UNCHANGED pipeVars

\* await link.click(timeout=10000) and the waits: the page the first element
\* of the locator leads to is loaded; with no element the click can only raise
GalaxusClick ==
    /\ ext.pc = "click"
    /\ Len(ext.link) > 0
    /\ ext' = [ext EXCEPT !.pc = "extract",
                          !.page = ProductPage(Head(ext.link).product)]
    /\ UNCHANGED pipeVars

\* what check_galaxus_product reads from the page it has open
galaxus_result(page) ==
    [url |-> page.url,
     availability_text |-> page.availability_text,
     images_count |-> page.images_count,
     videos_count |-> page.videos_count,
     bullets_ok |-> page.short_li >= BulletsMin,
     price_chf |-> _price_to_chf(_clean(page.price_text))]

GalaxusExtract ==
    /\ ext.pc = "extract"
    /\ ext' = [ext EXCEPT !.pc = "close_context",
                          !.result = galaxus_result(ext.page)]
    /\ UNCHANGED pipeVars

\* --------------------------------------- galaxus.py: check_keyword_rank
\* for rank in range(1, RankStop)
RankStop == 49
MaxVisibleFrom == 50
OtherId == <<"9", "9", "9">>
\* the search page's HTML after some scrolls; the product is in it from
\* attempt visible_from on, and never when visible_from is 0
page_content(product_id, visible_from, scrolls) ==
    <<"<", "a", ">">> \o
        (IF visible_from # 0 /\ scrolls + 1 >= visible_from
         THEN product_id ELSE OtherId) \o <<"<", "/", "a", ">">>
\* faulty variant: the product is never seen
keyword_found_never(product_id, html) == FALSE
\* product_id in html
keyword_found(product_id, html) == Contains(product_id, html)

InitKeyword ==
    \E v \in 0..MaxVisibleFrom :
        ext = [pc |-> "enter", fn |-> "check_keyword_rank",
               session |-> NoSession, product_id |-> ProductId,
               visible_from |-> v, rank |-> 1, scrolls |-> 0,
               result |-> EmptyDict]

\* html = await page.content(); if product_id in html: ... return
KeywordContent ==
    /\ ext.pc = "content"
    /\ LET html == page_content(ext.product_id, ext.visible_from, ext.scrolls)
       IN  IF keyword_found(ext.product_id, html)
           THEN ext' = [ext EXCEPT !.pc = "close_context",
                           !.result = [rank |-> ext.rank, over_48 |-> FALSE]]
           ELSE ext' = [ext EXCEPT !.pc = "wheel"]
    /\ UNCHANGED pipeVars

\* await page.mouse.wheel(0, 1200); the wait; the next rank of the range, or
\* the end of the loop
KeywordWheel ==
    /\ ext.pc = "wheel"
    /\ IF ext.rank + 1 < RankStop
       THEN ext' = [ext EXCEPT !.pc = "content", !.rank = ext.rank + 1,
                               !.scrolls = ext.scrolls + 1]
       ELSE ext' = [ext EXCEPT !.pc = "close_context",
                               !.scrolls = ext.scrolls + 1,
                               !.result = [rank |-> NoRank, over_48 |-> TRUE]]
    /\ UNCHANGED pipeVars

\* ------------------------------------------- toppreise.py: check_toppreise
\* for i in range(min(pn, ScanLimit))
ScanLimit == 80
MaxExtraNodes == 1
\* a price element: its text, the text of its container, and whether the
\* container can be read at all
PriceNodes == {
    [price_text |-> <<"C", "H", "F", " ", "1", "9", ".", "9", "0">>, container_text |-> <<"F", "u", "s", "t", " ", " ", "C", "H", "F", " ", "1", "9", ".", "9", "0">>, container_ok |-> TRUE],
    [price_text |-> <<"C", "H", "F", " ", "9", ".", "9", "0">>, container_text |-> <<"D", "i", "g", "i", "t", "e", "c", " ", "C", "H", "F", " ", "9", ".", "9", "0">>, container_ok |-> TRUE],
    [price_text |-> <<"C", "H", "F", " ", "1", "5", ".", "5", "0">>, container_text |-> <<"b", "a", "b", "y", "-", "m", "a", "r", "k", "t", ".", "c", "h", " ", "C", "H", "F", " ", "1", "5", ".", "5", "0">>, container_ok |-> TRUE],
    [price_text |-> <<"z", ".", " ", "C", "H", "F", " ", "5", ".", "0", "0">>, container_text |-> <<"F", "u", "s", "t", " ", "z", ".", " ", "C", "H", "F", " ", "5", ".", "0", "0">>, container_ok |-> TRUE],
    [price_text |-> <<"C", "H", "F", " ", "5", ".", "0", "0">>, container_text |-> <<"F", "u", "s", "t", " ", "C", "H", "F", " ", "5", ".", "0", "0">>, container_ok |-> FALSE],
    [price_text |-> <<"C", "H", "F", " ", "1", "9", ".", "9">>, container_text |-> <<"B", "r", "a", "c", "k", " ", "C", "H", "F", " ", "1", "9", ".", "9">>, container_ok |-> TRUE]}
FillerNode ==
    [price_text |-> <<"C", "H", "F", " ", "5", "0", ".", "0", "0">>, container_text |-> <<"D", "i", "g", "i", "t", "e", "c", " ", "C", "H", "F", " ", "5", "0", ".", "0", "0">>, container_ok |-> TRUE]
NodeCounts == (0..2) \cup (ScanLimit..(ScanLimit + MaxExtraNodes))
\* price_nodes.nth(i - 1) of a page with n price elements, of which the first
\* and the last are chosen freely
price_node(n, first, last, i) ==
    IF i = 1 THEN first ELSE IF i = n THEN last ELSE FillerNode

\* faulty variant: every price element is scanned
scanned_all(pn) == pn
\* min(pn, 80)
scanned(pn) == IF pn < ScanLimit THEN pn ELSE ScanLimit

\* the vendor of a price element; an exception while reading its container
\* leaves ""
vendor_of(node) ==
    IF node.container_ok
    THEN _normalize_vendor_from_text(_clean(node.container_text))
    ELSE << >>

\* the loop over offers from offer k on: best_price (in a sequence, << >> for
\* None) and best_vendor
RECURSIVE best_offer(_, _, _)
best_offer(offers, k, best) ==
    IF k > Len(offers) THEN best
    ELSE IF best.price = << >> \/ float_lt(offers[k].price, best.price[1])
    THEN best_offer(offers, k + 1,
                    [price |-> <<offers[k].price>>, vendor |-> offers[k].vendor])
    ELSE best_offer(offers, k + 1, best)

\* what check_toppreise returns for the offers it has collected
toppreise_result(offers) ==
    LET best == best_offer(offers, 1, [price |-> << >>, vendor |-> << >>])
    IN  [best_price_chf |-> best.price, vendor |-> best.vendor]

InitToppreise ==
    \E n \in NodeCounts, first \in PriceNodes, last \in PriceNodes,
       has_link \in BOOLEAN :
        ext = [pc |-> "enter", fn |-> "check_toppreise",
               session |-> NoSession, product_id |-> ProductId,
               has_result_link |-> has_link,
               n |-> n,
               first |-> IF n >= 1 THEN first ELSE FillerNode,
               last |-> IF n >= 2 THEN last ELSE FillerNode,
               pn |-> 0, i |-> 1, offers |-> << >>, result |-> EmptyDict]

\* if await result_link.count() > 0
ToppreiseResultLink ==
    /\ ext.pc = "result_link"
    /\ ext' = [ext EXCEPT !.pc = IF ext.has_result_link THEN "result_click"
                                 ELSE "count"]
    /\ UNCHANGED pipeVars

\* await result_link.click(timeout=8000) and the waits
ToppreiseResultClick ==
    /\ ext.pc = "result_click"
    /\ ext' = [ext EXCEPT !.pc = "count"]
    /\ UNCHANGED pipeVars

\* pn = await price_nodes.count(); the loop starts or is skipped
ToppreiseCount ==
    /\ ext.pc = "count"
    /\ ext' = [ext EXCEPT !.pn = ext.n,
                          !.pc = IF scanned(ext.n) >= 1 THEN "node"
                                 ELSE "close_context",
                          !.result = IF scanned(ext.n) >= 1 THEN EmptyDict
                                     ELSE toppreise_result(<< >>)]
    /\ UNCHANGED pipeVars

\* one turn of the loop over the price elements
ToppreiseNode ==
    /\ ext.pc = "node"
    /\ LET node == price_node(ext.n, ext.first, ext.last, ext.i)
           price == _parse_price(_clean(node.price_text))
           offers == IF price # << >> /\ vendor_of(node) # << >>
                     THEN Append(ext.offers,
                                 [vendor |-> vendor_of(node), price |-> price[1]])
                     ELSE ext.offers
       IN  IF ext.i < scanned(ext.pn)
           THEN ext' = [ext EXCEPT !.offers = offers, !.i = ext.i + 1]
           ELSE ext' = [ext EXCEPT !.offers = offers, !.pc = "close_context",
                                   !.result = toppreise_result(offers)]
    /\ UNCHANGED pipeVars

ExtractStep ==
    \/ EnterPlaywright
    \/ Launch
    \/ NewContext
    \/ Goto
    \/ GalaxusLinkCount
    \/ GalaxusClick
    \/ GalaxusExtract
    \/ KeywordContent
    \/ KeywordWheel
    \/ ToppreiseResultLink
    \/ ToppreiseResultClick
    \/ ToppreiseCount
    \/ ToppreiseNode
    \/ CloseContext
    \/ CloseBrowser
    \/ Return
    \/ AwaitRaises

InitExtract ==
    /\ InitProgram /\ uploadsLeft = 0 /\ rowsLeft = 0
    /\ (InitGalaxus \/ InitKeyword \/ InitToppreise)
NextExtract == ExtractStep
\* one call of one extractor
SpecExtract == InitExtract /\ [][NextExtract]_vars

\* ---------------------------------------------- the claims on the extractors
\* the positions between the creation of the page and the first close
BodyPcs == {"goto", "link_count", "click", "extract", "content", "wheel",
            "result_link", "result_click", "count", "node", "close_context"}
\* the positions at which the call has computed what it returns
ResultPcs == {"close_context", "close_browser", "return", "returned"}
SomethingOpen(s) == "open" \in {s.driver, s.browser, s.context}

C12_NotFoundWhenNoMatch ==
    (/\ ext.pc # "none"
     /\ ext.fn = "check_galaxus_product"
     /\ \A k \in DOMAIN ext.search :
            ~Contains(ext.product_id, ext.search[k].text))
        => /\ ext.pc \notin {"extract"} \cup ResultPcs
           /\ ext.page = NoPage

\* C13: check_keyword_rank makes at most 48 attempts; a product first seen at
\* attempt k of 1..48 gives rank k, over_48 false, after k - 1 scrolls; a
\* product not seen in 48 attempts gives the empty rank and over_48 true; the
\* rank is never outside 1..48, and over_48 is true exactly for the empty rank.
C13_RankWithin48 ==
    (ext.pc # "none" /\ ext.fn = "check_keyword_rank") =>
        /\ ext.rank \in 1..48
        /\ ext.scrolls <= 48
        /\ ext.pc \in ResultPcs =>
            /\ ext.visible_from \in 1..48 =>
                   /\ ext.result = [rank |-> ext.visible_from, over_48 |-> FALSE]
                   /\ ext.scrolls = ext.visible_from - 1
            /\ ext.visible_from \notin 1..48 =>
                   /\ ext.result = [rank |-> NoRank, over_48 |-> TRUE]
                   /\ ext.scrolls = 48
            /\ ext.result.rank \in (1..48) \cup {NoRank}
            /\ ext.result.over_48 <=> ext.result.rank = NoRank

\* the product was first seen at the 48th attempt and the call returned rank 48
C13_Witness ==
    /\ ext.pc = "returned"
    /\ ext.fn = "check_keyword_rank"
    /\ ext.visible_from = 48
    /\ ext.result = [rank |-> 48, over_48 |-> FALSE]
    /\ ext.scrolls = 47

\* the price a is lower than the price b
Cheaper(a, b) == a.m * Pow10(b.k) < b.m * Pow10(a.k)
\* the price elements among the first 80 with a price and an allowed vendor
AllowedNodes ==
    { i \in 1..(IF ext.n < 80 THEN ext.n ELSE 80) :
        LET node == price_node(ext.n, ext.first, ext.last, i)
        IN  /\ _parse_price(_clean(node.price_text)) # << >>
            /\ vendor_of(node) # << >> }

\* C14: check_toppreise returns the vendor and the price of an element that is
\* among the first 80 price elements, has a price and an allowed vendor, and
\* is not dearer than any other such element; it returns the empty result when
\* there is no such element.
C14_CheapestAllowedVendor ==
    (ext.pc \in ResultPcs /\ ext.fn = "check_toppreise") =>
        IF AllowedNodes = {}
        THEN ext.result = [best_price_chf |-> << >>, vendor |-> << >>]
        ELSE \E i \in AllowedNodes :
                LET node == price_node(ext.n, ext.first, ext.last, i)
                    price == _parse_price(_clean(node.price_text))
                IN  /\ ext.result = [best_price_chf |-> price,
                                     vendor |-> vendor_of(node)]
                    /\ \A j \in AllowedNodes :
                          ~Cheaper(_parse_price(_clean(
                                     price_node(ext.n, ext.first, ext.last,
                                                j).price_text))[1],
                                   price[1])

\* the cheapest element of the page names no allowed vendor, a dearer one
\* beyond the first names Fust, and Fust's price is returned
C14_Witness ==
    /\ ext.pc = "returned"
    /\ ext.fn = "check_toppreise"
    /\ ext.n >= 2
    /\ ext.first.container_text = <<"D", "i", "g", "i", "t", "e", "c", " ", "C", "H", "F", " ", "9", ".", "9", "0">>
    /\ ext.result = [best_price_chf |-> <<[m |-> 199, k |-> 1]>>,
                     vendor |-> Fust]

\* ------------------------------------------- the claims on sheet and store
\* the sheet rows of job j whose identifier cell (column 1) is not blank
RowsWithId(j) ==
    { HEADER_ROW + i : i \in { k \in DOMAIN xlsx[j].data :
          \E n \in DOMAIN xlsx[j].data[k][1] : xlsx[j].data[k][1][n] # WS } }

\* C17: a data row whose identifier cell is blank gives no InputRow, no
\* extractor call and no RowResult and is not counted: the InputRows, the
\* RowResults, the returned count and the stored total are those of the rows
\* with an identifier.
C17_BlankIdRowsSkipped ==
    \A j \in Jobs :
        /\ RowIndices(j) \subseteq RowsWithId(j)
        /\ DOMAIN results_by_row[j] \subseteq RowsWithId(j)
        /\ \A call \in active[j] : inputs[j][call[1]].row_index \in RowsWithId(j)
        /\ PipelineFinished(j) =>
              /\ RowIndices(j) = RowsWithId(j)
              /\ Len(inputs[j]) = Cardinality(RowsWithId(j))
              /\ DOMAIN results_by_row[j] = RowsWithId(j)
        /\ tresult[j] # NoResult => tresult[j].count = Cardinality(RowsWithId(j))
        /\ (j \in DOMAIN jobsBin /\ jobsBin[j].status = "done") =>
              jobsBin[j].total = Cardinality(RowsWithId(j))

\* a sheet of three data rows, one of them with a blank identifier, was
\* processed and two rows were counted
C17_Witness ==
    \E j \in Jobs :
        /\ Len(xlsx[j].data) = 3
        /\ Cardinality(RowsWithId(j)) = 2
        /\ tresult[j] # NoResult
        /\ tresult[j].count = 2
        /\ j \in DOMAIN jobsBin /\ jobsBin[j].status = "done"

\* what the sheet holds in column c (3..9) for a row with the RowResult r
OutputValue(r, c) ==
    CASE c = 3 -> r.availability_text
      [] c = 4 -> JaNein(r.images_ok)
      [] c = 5 -> JaNein(r.videos_ok)
      [] c = 6 -> JaNein(r.bullets_ok)
      [] c = 7 -> r.galaxus_price
      [] c = 8 -> r.toppreise_price
      [] c = 9 -> r.toppreise_vendor

\* C18: in the saved sheet the seven output columns of the rows that have a
\* RowResult hold that result's values, and every other cell (the header row,
\* the ID and Keyword columns, the rows without a RowResult) is as uploaded,
\* so no cell holds the keyword rank; the rank is in the returned map.
C18_OnlyOutputColumnsWritten ==
    \A j \in Jobs :
        tresult[j] # NoResult =>
            LET out == tresult[j].excel_bytes[1]
                rbr == tresult[j].results_by_row
            IN  /\ out.header = xlsx[j].header
                /\ Len(out.data) = Len(xlsx[j].data)
                /\ \A i \in DOMAIN xlsx[j].data : \A c \in 1..9 :
                      out.data[i][c] =
                          IF HEADER_ROW + i \in DOMAIN rbr /\ c \in 3..9
                          THEN OutputValue(rbr[HEADER_ROW + i], c)
                          ELSE xlsx[j].data[i][c]
                /\ \A r \in DOMAIN rbr :
                      /\ rbr[r].keyword_rank = results_by_row[j][r].keyword_rank
                      /\ rbr[r].keyword_over_48 = results_by_row[j][r].keyword_over_48

\* a row with a keyword got rank 3 in the map; its sheet row has the vendor
\* and still the keyword as uploaded
C18_Witness ==
    \E j \in Jobs :
        /\ tresult[j] # NoResult
        /\ \E i \in DOMAIN xlsx[j].data :
              /\ HEADER_ROW + i \in DOMAIN tresult[j].results_by_row
              /\ tresult[j].results_by_row[HEADER_ROW + i].keyword_rank = 3
              /\ tresult[j].excel_bytes[1].data[i][9] = <<"Fust">>
              /\ tresult[j].excel_bytes[1].data[i][2] = <<"baby", WS, WS, "phone">>

\* the step is a write of create_job's or of job j's task under the key j
WritesKey(j) ==
    \/ apiJob = j /\ apiPc \in {"put_job_write", "put_results_write"}
                  /\ apiPc' # apiPc
    \/ tpc'[j] # tpc[j]

\* C19: a put_job or put_results for one job id leaves the entries of the
\* other job ids as they are: a step changes or removes the stored JobRecord
\* or ResultRecord of job j only if it is a write under the key j.
C19_OtherEntriesUntouched ==
    [][\A j \in Jobs :
          /\ (j \in DOMAIN jobsBin
                /\ (j \notin DOMAIN jobsBin' \/ jobsBin'[j] # jobsBin[j]))
                 => WritesKey(j)
          /\ (j \in DOMAIN resultsBin
                /\ (j \notin DOMAIN resultsBin' \/ resultsBin'[j] # resultsBin[j]))
                 => WritesKey(j)]_vars

\* C20: with one job on the store, the populated ResultRecord is stored before
\* the write of status done begins, so whenever the stored JobRecord has
\* status done the stored ResultRecord has the artifact, the finish time, the
\* row map of the run and as many rows as the JobRecord's total.
C20_ResultsBeforeDone ==
    \A j \in Jobs :
        (\/ tpc[j] \in {"put_done_read", "put_done_write"}
         \/ (j \in DOMAIN jobsBin /\ jobsBin[j].status = "done")) =>
            /\ j \in DOMAIN resultsBin
            /\ resultsBin[j].excel_bytes_b64 # << >>
            /\ resultsBin[j].finished_at # None
            /\ resultsBin[j].results_by_row = results_by_row[j]
            /\ resultsBin[j].count = Len(inputs[j])
            /\ (jobsBin[j].status = "done" => jobsBin[j].total = resultsBin[j].count)

\* the job is stored as done and its stored ResultRecord has two rows
C20_Witness ==
    \E j \in Jobs :
        /\ j \in DOMAIN jobsBin /\ jobsBin[j].status = "done"
        /\ j \in DOMAIN resultsBin
        /\ Cardinality(DOMAIN resultsBin[j].results_by_row) = 2
        /\ resultsBin[j].excel_bytes_b64 # << >>

\* ------------------------------------------------ the claims on a row's end
\* C21: once a call of a row has raised, the row makes no further call: after
\* a failure of check_galaxus_product its only call is that one, after a
\* failure of check_keyword_rank its calls are those two, and in both the
\* row's local and its recorded result toppreise_price and toppreise_vendor
\* are empty.
C21_NoCallAfterRaise ==
    \A j \in Jobs : \A i \in Rows(j) : \A n \in DOMAIN log[j][i] :
        log[j][i][n] = "raise" =>
            /\ \A m \in DOMAIN log[j][i] : m > n => ~IsCall(log[j][i][m])
            /\ rpc[j][i] \notin {"gx", "kw", "tp"}
            /\ ActiveOf(j, i) = {}
            /\ log[j][i][n - 1] = "gx" => Calls(j, i) = <<"gx">>
            /\ log[j][i][n - 1] = "kw" => Calls(j, i) = <<"gx", "kw">>
            /\ res[j][i].toppreise_price = << >>
            /\ res[j][i].toppreise_vendor = << >>
            /\ inputs[j][i].row_index \in DOMAIN results_by_row[j] =>
                  LET r == results_by_row[j][inputs[j][i].row_index]
                  IN  r.toppreise_price = << >> /\ r.toppreise_vendor = << >>

\* a batch in which check_keyword_rank raised for one row, which ended with
\* the Galaxus price and without a Toppreise price, and check_galaxus_product
\* raised for another
C21_Witness ==
    \E j \in Jobs : \E i, k \in Rows(j) :
        /\ rpc[j][i] = "done" /\ rpc[j][k] = "done"
        /\ log[j][i] = <<"acquire", "gx", "gx_ok", "kw", "raise", "record",
                         "sleep", "release">>
        /\ results_by_row[j][inputs[j][i].row_index].galaxus_price # << >>
        /\ results_by_row[j][inputs[j][i].row_index].toppreise_price = << >>
        /\ Calls(j, k) = <<"gx">>

\* ---------------------------------------------------- fair scheduling
\* the event loop runs every row task that can take a step, every extractor
\* call returns or raises, and every sleep ends
RowsFair == \A j \in Jobs : \A i \in 1..MaxInputs : WF_vars(RowStep(j, i))
\* one job against the store, its row tasks scheduled fairly
SpecFair == Init /\ [][Next]_vars /\ RowsFair

AllRowsEnded(j) == \A i \in Rows(j) : rpc[j][i] = "done"

\* C22: under fair scheduling of the row tasks, with calls that return or
\* raise, a gather that has started leads to all row tasks ended with both
\* permits free, and a row that waits for a slot leads to that row holding
\* or having held one.
C22_GatherTerminates ==
    \A j \in Jobs :
        /\ (tpc[j] = "gather") ~> (AllRowsEnded(j) /\ sem[j] = SemPermits)
        /\ \A i \in 1..MaxInputs :
              (tpc[j] = "gather" /\ i \in Rows(j) /\ rpc[j][i] = "wait")
                  ~> (i \in Rows(j) /\ rpc[j][i] # "wait")

\* a batch of three rows, more than there are permits, has ended with both
\* permits free; one row raised and one returned from all calls
C22_Witness ==
    \E j \in Jobs :
        /\ Len(inputs[j]) = 3
        /\ AllRowsEnded(j)
        /\ sem[j] = SemPermits
        /\ \E i, k \in Rows(j) :
              /\ "raise" \in Events(j, i)
              /\ log[j][k] = LogAllReturned(inputs[j][k])

\* ------------------------------------------- the claims on the scheduling
\* the RowResults a row task can end with, given its own InputRow and its own
\* sequence of returned and raised calls, and nothing of any other row
OwnResults(inp, lg) ==
    LET ev == { lg[n] : n \in DOMAIN lg } IN
    { LET r1 == IF "gx_ok" \in ev THEN after_galaxus(res_init(inp), gx)
                ELSE res_init(inp)
          r2 == IF "kw_ok" \in ev THEN after_keyword(r1, rk) ELSE r1
          r3 == IF "tp_ok" \in ev THEN after_toppreise(r2, tp) ELSE r2
      IN  IF "raise" \in ev THEN after_exception(r3, e) ELSE r3 :
      gx \in GxResults, rk \in RkResults, tp \in TpResults,
      e \in ExtractorErrors }
\* the row task of job j whose InputRow has row index r took a step
RowTaskStepped(j, r) ==
    \E i \in Rows(j) : inputs[j][i].row_index = r /\ rpc'[j][i] # rpc[j][i]

\* C23: whatever the order in which the row tasks run, the entry recorded for
\* a row is the one given by that row's own input and own call outcomes, and
\* an entry of results_by_row is added or changed only by a step of the task
\* of that row index, so the final mapping does not depend on the schedule.
C23_OrderIndependent ==
    /\ [](\A j \in Jobs : \A i \in Recorded(j) :
             results_by_row[j][inputs[j][i].row_index]
                 \in OwnResults(inputs[j][i], log[j][i]))
    /\ [][\A j \in Jobs : \A r \in DOMAIN results_by_row'[j] :
             (r \notin DOMAIN results_by_row[j]
                \/ results_by_row'[j][r] # results_by_row[j][r])
             => RowTaskStepped(j, r)]_vars

\* a later row of the sheet has recorded a failure while an earlier row, with
\* another input, is still in its first call and a third row waits
C23_Witness ==
    \E j \in Jobs : \E i, k, w \in Rows(j) :
        /\ i < k
        /\ rpc[j][i] = "gx" /\ rpc[j][w] = "wait"
        /\ k \in Recorded(j)
        /\ inputs[j][i].keyword # inputs[j][k].keyword
        /\ results_by_row[j][inputs[j][k].row_index].notes # << >>

============================================================================
